---- MODULE Spec2Model ----
(***************************************************************************)
(* The claim tracker of the scheduler's DRA manager                        *)
(* (pkg/scheduler/framework/runtime/dra_manager.go): an assume cache of    *)
(* ResourceClaim objects keyed by "<namespace>/<name>" combined with the   *)
(* in-flight allocation ledger (a sync.Map keyed by claim UID).            *)
(*                                                                         *)
(* Spec         every tracker operation as one atomic call, made in any    *)
(*              order by any caller, plus the informer's authoritative     *)
(*              updates of the cache.                                      *)
(* SpecHandoff  one scheduling attempt (Signal, Assume, Remove in program  *)
(*              order) running against a reader that executes              *)
(*              ListAllAllocated statement by statement.                   *)
(* SpecScenario one caller alone, from any state of the cache: it assumes  *)
(*              a claim and restores it, or signals a claim and removes    *)
(*              it twice.                                                  *)
(***************************************************************************)
EXTENDS Naturals, Sequences, FiniteSets, TLC

VARIABLES
    cache,                \* claimTracker.cache: key -> NoEntry or [latestObj, apiObj]
    inFlightAllocations,  \* claimTracker.inFlightAllocations: UID -> Nil or claim
    ret,                  \* what the last call returned
    apc,                  \* the scheduling attempt: its position
    aorig,                \* the scheduling attempt: claim X as read from the cache
    aclaim,               \* the scheduling attempt: claim X' (X allocated and persisted)
    rpc,                  \* the ListAllAllocated call in progress: its position
    rclaims,              \* ... its local `claims` (what List() returned)
    ri,                   \* ... its position in the range loop
    rallocated,           \* ... its local `allocated`
    rbegin,               \* ... the attempt's position when the call began
    cuid,                 \* concurrent ledger callers: caller -> the UID it works on
    chist,                \* concurrent ledger callers: caller -> the calls it has made
    ledger0,              \* concurrent ledger callers: the ledger when they started
    pcache,               \* ClaimsAssumeCache.cache, run side by side with the tracker
    pret                  \* what the last ClaimsAssumeCache call returned

trackerVars == <<cache, inFlightAllocations>>
attemptVars == <<apc, aorig, aclaim>>
readerVars  == <<rpc, rclaims, ri, rallocated, rbegin>>
callerVars  == <<cuid, chist, ledger0>>
pluginVars  == <<pcache, pret>>
vars == <<cache, inFlightAllocations, ret, apc, aorig, aclaim,
          rpc, rclaims, ri, rallocated, rbegin, cuid, chist, ledger0, pcache, pret>>

---------------------------------------------------------------------------
(* Bounds and the universe of objects                                      *)

\* resource versions range over 1..MaxResourceVersion
MaxResourceVersion == 2

Namespaces == {"ns"}
ClaimNames == {"a", "b"}
\* the order in which the cache lists its objects
NameSeq == <<"a", "b">>

ClaimKind == "ResourceClaim"
NilAllocation == "nil"
Allocations == {NilAllocation, "allocated"}

\* a nil pointer / nil interface value
Nil == [kind |-> "nil"]
\* no objInfo stored under a key
NoEntry == [latestObj |-> Nil, apiObj |-> Nil]
\* a nil error
NoError == "nil"

\* cache.MetaNamespaceKeyFunc: the name the cache stores an object under
MetaNamespaceKey(namespace, name) == namespace \o "/" \o name

Keys == {MetaNamespaceKey(ns, n) : ns \in Namespaces, n \in ClaimNames}
KeySeq == [i \in 1..Len(NameSeq) |-> MetaNamespaceKey(CHOOSE ns \in Namespaces : TRUE, NameSeq[i])]

\* the UID of the claim with a given namespace and name: stable across updates
UidOf(namespace, name) == "uid-" \o name \o "." \o namespace

UIDs == {UidOf(ns, n) : ns \in Namespaces, n \in ClaimNames}

ResourceClaim(namespace, name, rv, allocation) ==
    [kind |-> ClaimKind, namespace |-> namespace, name |-> name,
     uid |-> UidOf(namespace, name), resourceVersion |-> rv,
     allocation |-> allocation]

Claims == {ResourceClaim(ns, n, rv, al) :
              ns \in Namespaces, n \in ClaimNames,
              rv \in 1..MaxResourceVersion, al \in Allocations}

KeyOf(obj) == MetaNamespaceKey(obj.namespace, obj.name)

---------------------------------------------------------------------------
(* The assume cache, as the tracker consumes it                            *)

\* the operations on a cache whose store is c
CacheGetIn(c, key) ==
    IF key \notin Keys \/ c[key] = NoEntry
    THEN [obj |-> Nil, err |-> "NotFound"]
    ELSE [obj |-> c[key].latestObj, err |-> NoError]

CacheGetAPIObjIn(c, key) ==
    IF key \notin Keys \/ c[key] = NoEntry
    THEN [obj |-> Nil, err |-> "NotFound"]
    ELSE [obj |-> c[key].apiObj, err |-> NoError]

RECURSIVE CacheListFromIn(_, _)
CacheListFromIn(c, i) ==
    IF i > Len(KeySeq) THEN <<>>
    ELSE IF c[KeySeq[i]] = NoEntry THEN CacheListFromIn(c, i + 1)
    ELSE <<c[KeySeq[i]].latestObj>> \o CacheListFromIn(c, i + 1)

CacheListIn(c) == CacheListFromIn(c, 1)

\* Assume(obj): the error it returns, and the store it leaves
CacheAssumeErrIn(c, obj) ==
    IF c[KeyOf(obj)] = NoEntry THEN "NotFound"
    ELSE IF obj.resourceVersion <= c[KeyOf(obj)].latestObj.resourceVersion
    THEN "OutOfSync"
    ELSE NoError

CacheAssumeIn(c, obj) ==
    IF CacheAssumeErrIn(c, obj) # NoError THEN c
    ELSE [c EXCEPT ![KeyOf(obj)].latestObj = obj]

CacheRestoreIn(c, key) ==
    IF key \notin Keys \/ c[key] = NoEntry THEN c
    ELSE [c EXCEPT ![key].latestObj = c[key].apiObj]

\* the informer's add/update handler: obj is the new authoritative version
CacheInformerUpdateIn(c, obj) ==
    LET key == KeyOf(obj) IN
    IF c[key] = NoEntry
    THEN [c EXCEPT ![key] = [latestObj |-> obj, apiObj |-> obj]]
    ELSE [c EXCEPT ![key] =
            [latestObj |-> IF obj.resourceVersion >= c[key].latestObj.resourceVersion
                           THEN obj ELSE c[key].latestObj,
             apiObj |-> obj]]

\* the tracker's cache
CacheGet(key) == CacheGetIn(cache, key)

CacheGetAPIObj(key) == CacheGetAPIObjIn(cache, key)

CacheListFrom(i) == CacheListFromIn(cache, i)

CacheList == CacheListIn(cache)

CacheAssumeErr(obj) == CacheAssumeErrIn(cache, obj)

CacheAssume(obj) == CacheAssumeIn(cache, obj)

CacheRestore(key) == CacheRestoreIn(cache, key)

CacheInformerUpdate(obj) == CacheInformerUpdateIn(cache, obj)

---------------------------------------------------------------------------
(* The claim tracker: what each operation returns                          *)

\* namespace + "/" + claimName
TrackerKey(namespace, claimName) == namespace \o "/" \o claimName

\* obj.(*resourceapi.ResourceClaim)
IsResourceClaim(obj) == obj.kind = ClaimKind

ClaimHasPendingAllocation(claimUid) == inFlightAllocations[claimUid] # Nil

\* faulty variant: the object is returned without the type assertion
Get_UncheckedCast(namespace, claimName) ==
    LET r == CacheGet(TrackerKey(namespace, claimName)) IN
    IF r.err # NoError THEN [claim |-> Nil, err |-> r.err]
    ELSE [claim |-> r.obj, err |-> NoError]

Get(namespace, claimName) ==
    LET r == CacheGet(TrackerKey(namespace, claimName)) IN
    IF r.err # NoError THEN [claim |-> Nil, err |-> r.err]
    ELSE IF ~IsResourceClaim(r.obj) THEN [claim |-> Nil, err |-> "UnexpectedType"]
    ELSE [claim |-> r.obj, err |-> NoError]

\* faulty variant: reads the latest object, as Get does
GetOriginal_ReadsLatest(namespace, claimName) ==
    LET r == CacheGet(TrackerKey(namespace, claimName)) IN
    IF r.err # NoError THEN [claim |-> Nil, err |-> r.err]
    ELSE IF ~IsResourceClaim(r.obj) THEN [claim |-> Nil, err |-> "UnexpectedType"]
    ELSE [claim |-> r.obj, err |-> NoError]

GetOriginal(namespace, claimName) ==
    LET r == CacheGetAPIObj(TrackerKey(namespace, claimName)) IN
    IF r.err # NoError THEN [claim |-> Nil, err |-> r.err]
    ELSE IF ~IsResourceClaim(r.obj) THEN [claim |-> Nil, err |-> "UnexpectedType"]
    ELSE [claim |-> r.obj, err |-> NoError]

List == [claims |-> SelectSeq(CacheList, IsResourceClaim), err |-> NoError]

\* faulty variant: the loop never consults the ledger
LedgerOrClaim_CacheOnly(origClaim) == origClaim

\* the range loop's look-up: the ledger's claim for origClaim's UID, else origClaim
LedgerOrClaim(origClaim) ==
    IF inFlightAllocations[origClaim.uid] # Nil
    THEN inFlightAllocations[origClaim.uid]
    ELSE origClaim

\* faulty variant: the loop appends without the nil check
AppendAllocated_NoNilCheck(allocated, claim) == Append(allocated, claim)

\* the range loop's append: claim is kept when claim.Status.Allocation != nil
AppendAllocated(allocated, claim) ==
    IF claim.allocation # NilAllocation THEN Append(allocated, claim) ELSE allocated

RECURSIVE RangeClaims(_, _, _)
RangeClaims(claims, i, allocated) ==
    IF i > Len(claims) THEN allocated
    ELSE RangeClaims(claims, i + 1, AppendAllocated(allocated, LedgerOrClaim(claims[i])))

\* faulty variant: the loop is skipped and List()'s claims are returned
ListAllAllocated_Unfiltered == [claims |-> List.claims, err |-> NoError]

\* faulty variant: the allocated claims of the ledger are appended as well
ListAllAllocated_PlusLedger ==
    [claims |-> RangeClaims(List.claims, 1, <<>>) \o
                SelectSeq([i \in 1..Len(NameSeq) |->
                              inFlightAllocations[
                                  UidOf(CHOOSE ns \in Namespaces : TRUE, NameSeq[i])]],
                          LAMBDA c : IF c = Nil THEN FALSE
                                     ELSE c.allocation # NilAllocation),
     err |-> NoError]

ListAllAllocated ==
    LET l == List IN
    IF l.err # NoError THEN [claims |-> <<>>, err |-> l.err]
    ELSE [claims |-> RangeClaims(l.claims, 1, <<>>), err |-> NoError]

---------------------------------------------------------------------------
(* The claim tracker: one action per operation, each one atomic call       *)

CallClaimHasPendingAllocation(claimUid) ==
    /\ ret' = [op |-> "ClaimHasPendingAllocation", uid |-> claimUid,
               found |-> ClaimHasPendingAllocation(claimUid)]
    /\ UNCHANGED trackerVars

\* faulty variant: LoadOrStore in place of Store (an existing entry is kept)
SignalClaimPendingAllocation_LoadOrStore(claimUid, allocatedClaim) ==
    /\ inFlightAllocations' =
          IF inFlightAllocations[claimUid] # Nil THEN inFlightAllocations
          ELSE [inFlightAllocations EXCEPT ![claimUid] = allocatedClaim]
    /\ ret' = [op |-> "SignalClaimPendingAllocation", uid |-> claimUid,
               claim |-> allocatedClaim]
    /\ UNCHANGED cache

SignalClaimPendingAllocation(claimUid, allocatedClaim) ==
    /\ inFlightAllocations' = [inFlightAllocations EXCEPT ![claimUid] = allocatedClaim]
    /\ ret' = [op |-> "SignalClaimPendingAllocation", uid |-> claimUid,
               claim |-> allocatedClaim]
    /\ UNCHANGED cache

\* faulty variant: Load in place of LoadAndDelete (the entry stays)
RemoveClaimPendingAllocation_LoadOnly(claimUid) ==
    /\ ret' = [op |-> "RemoveClaimPendingAllocation", uid |-> claimUid,
               found |-> inFlightAllocations[claimUid] # Nil]
    /\ UNCHANGED trackerVars

\* faulty variant: Delete, and found is reported as true
RemoveClaimPendingAllocation_AlwaysFound(claimUid) ==
    /\ inFlightAllocations' = [inFlightAllocations EXCEPT ![claimUid] = Nil]
    /\ ret' = [op |-> "RemoveClaimPendingAllocation", uid |-> claimUid,
               found |-> TRUE]
    /\ UNCHANGED cache

\* faulty variant: the whole map is cleared, not the one key
RemoveClaimPendingAllocation_Clear(claimUid) ==
    /\ inFlightAllocations' = [u \in UIDs |-> Nil]
    /\ ret' = [op |-> "RemoveClaimPendingAllocation", uid |-> claimUid,
               found |-> inFlightAllocations[claimUid] # Nil]
    /\ UNCHANGED cache

\* faulty variant: removing the entry also discards the claim's assumed version
RemoveClaimPendingAllocation_RestoresCache(claimUid) ==
    /\ inFlightAllocations' = [inFlightAllocations EXCEPT ![claimUid] = Nil]
    /\ cache' = [k \in Keys |->
                    IF cache[k] = NoEntry THEN cache[k]
                    ELSE IF cache[k].latestObj.uid = claimUid
                    THEN [cache[k] EXCEPT !.latestObj = cache[k].apiObj]
                    ELSE cache[k]]
    /\ ret' = [op |-> "RemoveClaimPendingAllocation", uid |-> claimUid,
               found |-> inFlightAllocations[claimUid] # Nil]

RemoveClaimPendingAllocation(claimUid) ==
    /\ inFlightAllocations' = [inFlightAllocations EXCEPT ![claimUid] = Nil]
    /\ ret' = [op |-> "RemoveClaimPendingAllocation", uid |-> claimUid,
               found |-> inFlightAllocations[claimUid] # Nil]
    /\ UNCHANGED cache

CallGet(namespace, claimName) ==
    /\ ret' = [op |-> "Get", key |-> TrackerKey(namespace, claimName),
               out |-> Get(namespace, claimName)]
    /\ UNCHANGED trackerVars

CallGetOriginal(namespace, claimName) ==
    /\ ret' = [op |-> "GetOriginal", key |-> TrackerKey(namespace, claimName),
               out |-> GetOriginal(namespace, claimName)]
    /\ UNCHANGED trackerVars

CallList ==
    /\ ret' = [op |-> "List", out |-> List]
    /\ UNCHANGED trackerVars

CallListAllAllocated ==
    /\ ret' = [op |-> "ListAllAllocated", out |-> ListAllAllocated]
    /\ UNCHANGED trackerVars

\* faulty variant: a successful Assume also drops the claim's ledger entry
AssumeClaimAfterApiCall_ClearsPending(claim) ==
    /\ cache' = CacheAssume(claim)
    /\ ret' = [op |-> "AssumeClaimAfterApiCall", claim |-> claim,
               err |-> CacheAssumeErr(claim)]
    /\ inFlightAllocations' =
          IF CacheAssumeErr(claim) = NoError
          THEN [inFlightAllocations EXCEPT ![claim.uid] = Nil]
          ELSE inFlightAllocations

\* faulty variant: the cache's error is dropped and nil is returned
AssumeClaimAfterApiCall_SwallowsError(claim) ==
    /\ cache' = CacheAssume(claim)
    /\ ret' = [op |-> "AssumeClaimAfterApiCall", claim |-> claim,
               err |-> NoError]
    /\ UNCHANGED inFlightAllocations

\* faulty variant: the claim becomes the latest object whatever its version
AssumeClaimAfterApiCall_Unvalidated(claim) ==
    /\ cache' = IF cache[KeyOf(claim)] = NoEntry THEN cache
                ELSE [cache EXCEPT ![KeyOf(claim)].latestObj = claim]
    /\ ret' = [op |-> "AssumeClaimAfterApiCall", claim |-> claim,
               err |-> IF cache[KeyOf(claim)] = NoEntry THEN "NotFound" ELSE NoError]
    /\ UNCHANGED inFlightAllocations

AssumeClaimAfterApiCall(claim) ==
    /\ cache' = CacheAssume(claim)
    /\ ret' = [op |-> "AssumeClaimAfterApiCall", claim |-> claim,
               err |-> CacheAssumeErr(claim)]
    /\ UNCHANGED inFlightAllocations

\* faulty variant: the cache's Restore is not called
AssumedClaimRestore_NoRestore(namespace, claimName) ==
    /\ ret' = [op |-> "AssumedClaimRestore", key |-> TrackerKey(namespace, claimName)]
    /\ UNCHANGED trackerVars

\* faulty variant: the object is dropped from the cache altogether
AssumedClaimRestore_DropsObject(namespace, claimName) ==
    /\ cache' = [k \in Keys |->
                    IF k = TrackerKey(namespace, claimName) THEN NoEntry ELSE cache[k]]
    /\ ret' = [op |-> "AssumedClaimRestore", key |-> TrackerKey(namespace, claimName)]
    /\ UNCHANGED inFlightAllocations

AssumedClaimRestore(namespace, claimName) ==
    /\ cache' = CacheRestore(TrackerKey(namespace, claimName))
    /\ ret' = [op |-> "AssumedClaimRestore", key |-> TrackerKey(namespace, claimName)]
    /\ UNCHANGED inFlightAllocations

\* a change notification: the store's version of a claim moved forward to obj
InformerUpdate(obj) ==
    /\ IF cache[KeyOf(obj)] = NoEntry THEN TRUE
       ELSE obj.resourceVersion > cache[KeyOf(obj)].apiObj.resourceVersion
    /\ cache' = CacheInformerUpdate(obj)
    /\ ret' = [op |-> "InformerUpdate", key |-> KeyOf(obj)]
    /\ UNCHANGED inFlightAllocations

---------------------------------------------------------------------------
(* Spec: any caller, any order                                             *)

\* the processes of the other specifications, at rest
CallersIdle ==
    /\ cuid = <<>>
    /\ chist = <<>>
    /\ ledger0 = <<>>

PluginIdle ==
    /\ pcache = <<>>
    /\ pret = <<>>

Init ==
    /\ cache = [k \in Keys |-> NoEntry]
    /\ inFlightAllocations = [u \in UIDs |-> Nil]
    /\ ret = [op |-> "NewDraManager"]
    /\ apc = "idle"
    /\ aorig = Nil
    /\ aclaim = Nil
    /\ rpc = "idle"
    /\ rclaims = <<>>
    /\ ri = 0
    /\ rallocated = <<>>
    /\ rbegin = "idle"
    /\ CallersIdle
    /\ PluginIdle

HasPending == \E u \in UIDs :
    CallClaimHasPendingAllocation(u) /\ UNCHANGED <<attemptVars, readerVars, callerVars, pluginVars>>
\* callers signal a claim under its own UID
Signal == \E c \in Claims :
    SignalClaimPendingAllocation(c.uid, c) /\ UNCHANGED <<attemptVars, readerVars, callerVars, pluginVars>>
Remove == \E u \in UIDs :
    RemoveClaimPendingAllocation(u) /\ UNCHANGED <<attemptVars, readerVars, callerVars, pluginVars>>
DoGet == \E ns \in Namespaces, n \in ClaimNames :
    CallGet(ns, n) /\ UNCHANGED <<attemptVars, readerVars, callerVars, pluginVars>>
DoGetOriginal == \E ns \in Namespaces, n \in ClaimNames :
    CallGetOriginal(ns, n) /\ UNCHANGED <<attemptVars, readerVars, callerVars, pluginVars>>
DoList == CallList /\ UNCHANGED <<attemptVars, readerVars, callerVars, pluginVars>>
DoListAllAllocated == CallListAllAllocated /\ UNCHANGED <<attemptVars, readerVars, callerVars, pluginVars>>
Assume == \E c \in Claims :
    AssumeClaimAfterApiCall(c) /\ UNCHANGED <<attemptVars, readerVars, callerVars, pluginVars>>
Restore == \E ns \in Namespaces, n \in ClaimNames :
    AssumedClaimRestore(ns, n) /\ UNCHANGED <<attemptVars, readerVars, callerVars, pluginVars>>
Informer == \E c \in Claims :
    InformerUpdate(c) /\ UNCHANGED <<attemptVars, readerVars, callerVars, pluginVars>>

Next ==
    \/ HasPending
    \/ Signal
    \/ Remove
    \/ DoGet
    \/ DoGetOriginal
    \/ DoList
    \/ DoListAllAllocated
    \/ Assume
    \/ Restore
    \/ Informer

Spec == Init /\ [][Next]_vars

---------------------------------------------------------------------------
(* SpecHandoff: one scheduling attempt against a ListAllAllocated call     *)
(* that runs statement by statement                                        *)

\* what the cache can hold under key: nothing, or an authoritative claim of
\* that key with itself or a newer claim of that key as the latest version
WellFormedEntry(key, e) ==
    \/ e = NoEntry
    \/ /\ e.apiObj \in Claims /\ e.latestObj \in Claims
       /\ KeyOf(e.apiObj) = key /\ KeyOf(e.latestObj) = key
       /\ \/ e.latestObj = e.apiObj
          \/ e.latestObj.resourceVersion > e.apiObj.resourceVersion

CacheEntries == {NoEntry} \cup [latestObj : Claims, apiObj : Claims]

WellFormedCaches ==
    {c \in [Keys -> CacheEntries] : \A k \in Keys : WellFormedEntry(k, c[k])}

\* The attempt read claim X (aorig) from the cache and decided to allocate
\* it; X' (aclaim) is X with the allocation, as the API server will store it.
InitHandoff ==
    /\ cache \in WellFormedCaches
    /\ inFlightAllocations = [u \in UIDs |-> Nil]
    /\ ret = [op |-> "NewDraManager"]
    /\ apc = "start"
    /\ aorig \in {cache[k].latestObj : k \in {kk \in Keys : cache[kk] # NoEntry}}
    /\ aclaim \in {c \in Claims : /\ KeyOf(c) = KeyOf(aorig)
                                  /\ c.allocation # NilAllocation
                                  /\ c.resourceVersion > aorig.resourceVersion}
    /\ rpc = "idle"
    /\ rclaims = <<>>
    /\ ri = 0
    /\ rallocated = <<>>
    /\ rbegin = "idle"
    /\ CallersIdle
    /\ PluginIdle

AttemptSignal ==
    /\ apc = "start"
    /\ SignalClaimPendingAllocation(aorig.uid, aclaim)
    /\ apc' = "signaled"
    /\ UNCHANGED <<aorig, aclaim, readerVars, callerVars, pluginVars>>

AttemptAssume ==
    /\ apc = "signaled"
    /\ AssumeClaimAfterApiCall(aclaim)
    /\ apc' = "assumed"
    /\ UNCHANGED <<aorig, aclaim, readerVars, callerVars, pluginVars>>

AttemptRemove ==
    /\ apc = "assumed"
    /\ RemoveClaimPendingAllocation(aorig.uid)
    /\ apc' = "removed"
    /\ UNCHANGED <<aorig, aclaim, readerVars, callerVars, pluginVars>>

\* claims, err := c.List(); allocated := make(...)
ReaderList ==
    /\ rpc \in {"idle", "returned"}
    /\ List.err = NoError
    /\ rclaims' = List.claims
    /\ ri' = 1
    /\ rallocated' = <<>>
    /\ rbegin' = apc
    /\ rpc' = "range"
    /\ UNCHANGED <<trackerVars, ret, attemptVars, callerVars, pluginVars>>

\* one iteration of the range loop
ReaderRange ==
    /\ rpc = "range"
    /\ ri <= Len(rclaims)
    /\ rallocated' = AppendAllocated(rallocated, LedgerOrClaim(rclaims[ri]))
    /\ ri' = ri + 1
    /\ UNCHANGED <<trackerVars, ret, attemptVars, callerVars, pluginVars, rpc, rclaims, rbegin>>

\* return allocated, nil
ReaderReturn ==
    /\ rpc = "range"
    /\ ri > Len(rclaims)
    /\ rpc' = "returned"
    /\ UNCHANGED <<trackerVars, ret, attemptVars, callerVars, pluginVars, rclaims, ri, rallocated, rbegin>>

NextHandoff ==
    \/ AttemptSignal
    \/ AttemptAssume
    \/ AttemptRemove
    \/ ReaderList
    \/ ReaderRange
    \/ ReaderReturn

SpecHandoff == InitHandoff /\ [][NextHandoff]_vars

---------------------------------------------------------------------------
(* SpecScenario: one caller alone.  aclaim is the claim it works on, aorig *)
(* the authoritative version of that claim when it starts (Nil if none).   *)

InitScenario ==
    /\ cache \in WellFormedCaches
    /\ inFlightAllocations = [u \in UIDs |-> Nil]
    /\ ret = [op |-> "NewDraManager"]
    /\ apc = "start"
    /\ aclaim \in Claims
    /\ aorig = cache[KeyOf(aclaim)].apiObj
    /\ rpc = "idle"
    /\ rclaims = <<>>
    /\ ri = 0
    /\ rallocated = <<>>
    /\ rbegin = "idle"
    /\ CallersIdle
    /\ PluginIdle

ScenarioAssume ==
    /\ apc = "start"
    /\ AssumeClaimAfterApiCall(aclaim)
    /\ apc' = IF CacheAssumeErr(aclaim) = NoError THEN "assumed" ELSE "rejected"
    /\ UNCHANGED <<aorig, aclaim, readerVars, callerVars, pluginVars>>

ScenarioRestore ==
    /\ apc = "assumed"
    /\ AssumedClaimRestore(aclaim.namespace, aclaim.name)
    /\ apc' = "restored"
    /\ UNCHANGED <<aorig, aclaim, readerVars, callerVars, pluginVars>>

ScenarioSignal ==
    /\ apc = "start"
    /\ SignalClaimPendingAllocation(aclaim.uid, aclaim)
    /\ apc' = "signaled"
    /\ UNCHANGED <<aorig, aclaim, readerVars, callerVars, pluginVars>>

\* a second Signal for the same UID, with any claim object of that UID
ScenarioSignalAgain ==
    /\ apc = "signaled"
    /\ \E c \in Claims :
        /\ c.uid = aclaim.uid
        /\ SignalClaimPendingAllocation(aclaim.uid, c)
    /\ apc' = "signaledAgain"
    /\ UNCHANGED <<aorig, aclaim, readerVars, callerVars, pluginVars>>

ScenarioRemove ==
    /\ apc \in {"start", "signaled", "signaledAgain"}
    /\ RemoveClaimPendingAllocation(aclaim.uid)
    /\ apc' = IF apc = "start" THEN "removedUnsignaled" ELSE "removed"
    /\ UNCHANGED <<aorig, aclaim, readerVars, callerVars, pluginVars>>

ScenarioRemoveAgain ==
    /\ apc = "removed"
    /\ RemoveClaimPendingAllocation(aclaim.uid)
    /\ apc' = "removedAgain"
    /\ UNCHANGED <<aorig, aclaim, readerVars, callerVars, pluginVars>>

\* Restore as the caller's first call, whatever the cache holds for the key
ScenarioRestoreOnly ==
    /\ apc = "start"
    /\ AssumedClaimRestore(aclaim.namespace, aclaim.name)
    /\ apc' = "restoredOnly"
    /\ UNCHANGED <<aorig, aclaim, readerVars, callerVars, pluginVars>>

ScenarioRestoreAgain ==
    /\ apc \in {"restored", "restoredOnly"}
    /\ AssumedClaimRestore(aclaim.namespace, aclaim.name)
    /\ apc' = "restoredAgain"
    /\ UNCHANGED <<aorig, aclaim, readerVars, callerVars, pluginVars>>

NextScenario ==
    \/ ScenarioAssume
    \/ ScenarioRestore
    \/ ScenarioRestoreOnly
    \/ ScenarioRestoreAgain
    \/ ScenarioSignal
    \/ ScenarioSignalAgain
    \/ ScenarioRemove
    \/ ScenarioRemoveAgain

SpecScenario == InitScenario /\ [][NextScenario]_vars

---------------------------------------------------------------------------
(* Shapes of the state                                                     *)

Range(seq) == {seq[i] : i \in 1..Len(seq)}

CachedClaims == Range(List.claims)

AllocatedClaims == Range(ListAllAllocated.claims)

TypeOK ==
    /\ cache \in WellFormedCaches
    /\ \A u \in UIDs : inFlightAllocations[u] = Nil
                       \/ (inFlightAllocations[u] \in Claims /\ inFlightAllocations[u].uid = u)

---------------------------------------------------------------------------
(* What the two stores record about the claim named namespace/name         *)

\* the ledger holds an entry for the claim's UID and it carries an allocation
LedgerRecordsAllocation(namespace, name) ==
    /\ inFlightAllocations[UidOf(namespace, name)] # Nil
    /\ inFlightAllocations[UidOf(namespace, name)].allocation # NilAllocation

\* the cache lists a version of the claim and it carries an allocation
CacheRecordsAllocation(namespace, name) ==
    \E c \in CachedClaims :
        c.namespace = namespace /\ c.name = name /\ c.allocation # NilAllocation

IsCached(namespace, name) ==
    \E c \in CachedClaims : c.namespace = namespace /\ c.name = name

\* ListAllAllocated reports the claim
IsReported(namespace, name) ==
    \E r \in AllocatedClaims : r.namespace = namespace /\ r.name = name

---------------------------------------------------------------------------
(* C1..C10                                                                 *)

\* C1 (SpecHandoff): a ListAllAllocated call that began after the attempt's
\* Signal returned has, when it returns, the attempt's claim in its result,
\* however its List() and its ledger look-ups interleave with the attempt's
\* Assume and Remove.
C1_NeverUnderCounts ==
    (rpc = "returned" /\ rbegin \in {"signaled", "assumed", "removed"})
        => \E r \in Range(rallocated) : r.uid = aorig.uid

\* C2 as stated: a claim is reported by ListAllAllocated only if the ledger or
\* the cache records an allocation for it, and whenever either of them does.
C2_AsStated ==
    \A ns \in Namespaces, n \in ClaimNames :
        IsReported(ns, n)
            <=> (LedgerRecordsAllocation(ns, n) \/ CacheRecordsAllocation(ns, n))

\* C2 (amended): a claim is reported by ListAllAllocated only if the ledger or
\* the cache records an allocation for it; and a claim that is in the cache is
\* reported whenever the ledger records an allocation for it, or the ledger has
\* no entry for it and the cache records an allocation.
C2_ReportedIffRecorded ==
    \A ns \in Namespaces, n \in ClaimNames :
        /\ IsReported(ns, n)
              => (LedgerRecordsAllocation(ns, n) \/ CacheRecordsAllocation(ns, n))
        /\ ( /\ IsCached(ns, n)
             /\ \/ LedgerRecordsAllocation(ns, n)
                \/ /\ ~ClaimHasPendingAllocation(UidOf(ns, n))
                   /\ CacheRecordsAllocation(ns, n) )
              => IsReported(ns, n)

\* a ListAllAllocated call returned a claim that only the ledger records as
\* allocated, next to a claim that only the cache records as allocated
C2_Witness ==
    /\ ret.op = "ListAllAllocated"
    /\ \E r \in Range(ret.out.claims) :
          /\ LedgerRecordsAllocation(r.namespace, r.name)
          /\ ~CacheRecordsAllocation(r.namespace, r.name)
    /\ \E r \in Range(ret.out.claims) :
          /\ ~ClaimHasPendingAllocation(r.uid)
          /\ CacheRecordsAllocation(r.namespace, r.name)

\* C3: ListAllAllocated returns no error and exactly the claims obtained by
\* taking each claim of List(), replacing it by the ledger entry under its UID
\* when there is one, and keeping the outcome iff it carries an allocation.
C3_ExactResult ==
    /\ ListAllAllocated.err = NoError
    /\ AllocatedClaims =
          {e \in {IF inFlightAllocations[c.uid] # Nil
                  THEN inFlightAllocations[c.uid] ELSE c : c \in CachedClaims} :
              e.allocation # NilAllocation}

\* a ListAllAllocated call returned the ledger's version of one cached claim
\* and dropped another cached claim, allocated in the cache, because its
\* ledger entry has no allocation
C3_Witness ==
    /\ ret.op = "ListAllAllocated"
    /\ ret.out = ListAllAllocated
    /\ \E c \in CachedClaims :
          /\ inFlightAllocations[c.uid] # Nil
          /\ inFlightAllocations[c.uid] # c
          /\ inFlightAllocations[c.uid] \in Range(ret.out.claims)
    /\ \E c \in CachedClaims :
          /\ inFlightAllocations[c.uid] # Nil
          /\ c.allocation # NilAllocation
          /\ \A r \in Range(ret.out.claims) : r.uid # c.uid

\* C4 (SpecHandoff): with X in the cache without allocation, X' is in
\* ListAllAllocated() once Signal(u1, X') has returned; Assume(X') succeeds;
\* and once Remove(u1) has returned, u1 has no pending allocation and X' is
\* still in ListAllAllocated(), as the cache's latest version of the claim.
C4_Handoff ==
    (apc # "idle" /\ aorig.allocation = NilAllocation) =>
        /\ apc = "signaled" =>
              /\ ClaimHasPendingAllocation(aorig.uid)
              /\ aclaim \in AllocatedClaims
        /\ apc = "assumed" =>
              /\ ret.err = NoError
              /\ aclaim \in AllocatedClaims
        /\ apc = "removed" =>
              /\ ret.found
              /\ ~ClaimHasPendingAllocation(aorig.uid)
              /\ aclaim \in AllocatedClaims
              /\ Get(aorig.namespace, aorig.name).claim = aclaim

\* the attempt has run to its end on a claim that had no allocation
C4_Witness ==
    /\ apc = "removed"
    /\ aorig.allocation = NilAllocation
    /\ aclaim \in AllocatedClaims
    /\ inFlightAllocations[aorig.uid] = Nil

\* C5 as stated: after Signal(uid, c) with c allocated, ListAllAllocated()
\* holds a claim with c's namespace and name.
C5_AsStated ==
    (ret.op = "SignalClaimPendingAllocation" /\ ret.claim.allocation # NilAllocation)
        => IsReported(ret.claim.namespace, ret.claim.name)

\* C5 (amended): after Signal(uid, c) with c allocated, and with a claim of
\* UID uid in the cache, c is in ListAllAllocated(), also when the cache's
\* version of the claim has no allocation.
C5_LedgerPrecedence ==
    ( /\ ret.op = "SignalClaimPendingAllocation"
      /\ ret.claim.allocation # NilAllocation
      /\ \E x \in CachedClaims : x.uid = ret.uid )
        => /\ ret.claim \in AllocatedClaims
           /\ IsReported(ret.claim.namespace, ret.claim.name)

\* Signal has just stored an allocated claim whose cached version has none
C5_Witness ==
    /\ ret.op = "SignalClaimPendingAllocation"
    /\ ret.claim.allocation # NilAllocation
    /\ \E x \in CachedClaims : x.uid = ret.uid /\ x.allocation = NilAllocation
    /\ ret.claim \in AllocatedClaims

\* C6: once the ledger holds an entry for u (Signal(u, c) has returned), every
\* step other than a RemoveClaimPendingAllocation(u) leaves an entry for u in
\* place, and a ClaimHasPendingAllocation(u) call returns true.
C6_PendingUntilRemove ==
    [][\A u \in UIDs :
        /\ (ret'.op = "SignalClaimPendingAllocation" /\ ret'.uid = u)
              => ClaimHasPendingAllocation(u)'
        /\ ( /\ ClaimHasPendingAllocation(u)
             /\ ~(ret'.op = "RemoveClaimPendingAllocation" /\ ret'.uid = u) )
              => /\ ClaimHasPendingAllocation(u)'
                 /\ (ret'.op = "ClaimHasPendingAllocation" /\ ret'.uid = u)
                       => ret'.found]_vars

\* ClaimHasPendingAllocation(u) returned true although the signaled claim has
\* since been assumed into the cache
C6_Witness ==
    /\ ret.op = "ClaimHasPendingAllocation"
    /\ ret.found
    /\ \E k \in Keys :
          /\ cache[k] # NoEntry
          /\ cache[k].latestObj # cache[k].apiObj
          /\ cache[k].latestObj = inFlightAllocations[ret.uid]

\* C7 (SpecScenario): with authoritative A under key k, after a successful
\* AssumeClaimAfterApiCall(B) Get(k) returns B and GetOriginal(k) returns A;
\* after the AssumedClaimRestore(k) that follows, Get(k) returns A.
C7_AssumeRestoreRoundTrip ==
    /\ apc = "assumed" =>
          /\ aclaim.resourceVersion > aorig.resourceVersion
          /\ Get(aclaim.namespace, aclaim.name) = [claim |-> aclaim, err |-> NoError]
          /\ GetOriginal(aclaim.namespace, aclaim.name) = [claim |-> aorig, err |-> NoError]
    /\ apc = "restored" =>
          /\ Get(aclaim.namespace, aclaim.name) = [claim |-> aorig, err |-> NoError]
          /\ GetOriginal(aclaim.namespace, aclaim.name) = [claim |-> aorig, err |-> NoError]

\* B was assumed over A and then restored
C7_Witness ==
    /\ apc = "restored"
    /\ ret.op = "AssumedClaimRestore"
    /\ aclaim # aorig
    /\ Get(aclaim.namespace, aclaim.name).claim = aorig

\* C8: AssumeClaimAfterApiCall(claim) with a claim not newer than the version
\* Get returns for its key returns an error and leaves cache and ledger as
\* they were.
C8_StaleAssumeRejected ==
    [][( /\ ret'.op = "AssumeClaimAfterApiCall"
         /\ Get(ret'.claim.namespace, ret'.claim.name).err = NoError
         /\ ret'.claim.resourceVersion
               <= Get(ret'.claim.namespace, ret'.claim.name).claim.resourceVersion )
            => /\ ret'.err # NoError
               /\ UNCHANGED trackerVars]_vars

\* an Assume was rejected as out of sync with an assumed version
C8_Witness ==
    /\ ret.op = "AssumeClaimAfterApiCall"
    /\ ret.err = "OutOfSync"
    /\ cache[KeyOf(ret.claim)].latestObj # cache[KeyOf(ret.claim)].apiObj
    /\ ret.claim.resourceVersion <= cache[KeyOf(ret.claim)].latestObj.resourceVersion

\* C9: when the ledger has no entry for the UID of any cached claim,
\* ListAllAllocated() returns exactly the claims of List() that carry an
\* allocation.
C9_NoLedgerEntries ==
    (\A c \in CachedClaims : ~ClaimHasPendingAllocation(c.uid))
        => AllocatedClaims = {c \in CachedClaims : c.allocation # NilAllocation}

\* ListAllAllocated returned one cached claim and left out another, with no
\* ledger entry for either
C9_Witness ==
    /\ ret.op = "ListAllAllocated"
    /\ \A c \in CachedClaims : ~ClaimHasPendingAllocation(c.uid)
    /\ \E c \in CachedClaims : c \in Range(ret.out.claims)
    /\ \E c \in CachedClaims : c \notin Range(ret.out.claims)

\* C10 (SpecScenario): after RemoveClaimPendingAllocation(uid) the UID has no
\* pending allocation; the first Remove after a Signal returns true; a Remove
\* of a UID that was never signaled, and a second Remove, return false and
\* change neither the ledger nor the cache.
C10_LedgerClears ==
    [][/\ apc' \in {"removed", "removedUnsignaled", "removedAgain"}
            => ~ClaimHasPendingAllocation(aclaim.uid)'
       /\ apc' = "removed" => ret'.found
       /\ apc' \in {"removedUnsignaled", "removedAgain"}
            => (~ret'.found /\ UNCHANGED trackerVars)]_vars

\* a second Remove has returned false
C10_Witness ==
    /\ apc = "removedAgain"
    /\ ret.op = "RemoveClaimPendingAllocation"
    /\ ~ret.found
    /\ ~ClaimHasPendingAllocation(aclaim.uid)

---------------------------------------------------------------------------
(* SpecCallers: concurrent callers of the ledger                           *)
(* Each call is one sync.Map operation (Store, LoadAndDelete), which is    *)
(* atomic, so a call is one step and the callers' steps interleave freely. *)

\* calls each concurrent caller makes at most
MaxCalls == 2

Callers == {1, 2}

\* what a caller signals for a UID: the claim of that UID with or without an
\* allocation result (the ledger never looks into the value it stores)
SignalValues(uid) ==
    {c \in Claims : c.uid = uid /\ c.resourceVersion = 1}

StartLedgers ==
    {l \in [UIDs -> Claims \cup {Nil}] :
        \A u \in UIDs : l[u] = Nil \/ l[u] \in SignalValues(u)}

InitCallers ==
    /\ cache = [k \in Keys |-> NoEntry]
    /\ inFlightAllocations \in StartLedgers
    /\ ledger0 = inFlightAllocations
    /\ cuid \in [Callers -> UIDs]
    /\ chist = [i \in Callers |-> <<>>]
    /\ ret = [op |-> "NewDraManager"]
    /\ apc = "idle"
    /\ aorig = Nil
    /\ aclaim = Nil
    /\ rpc = "idle"
    /\ rclaims = <<>>
    /\ ri = 0
    /\ rallocated = <<>>
    /\ rbegin = "idle"
    /\ PluginIdle

CallerSignal ==
    \E i \in Callers : \E c \in SignalValues(cuid[i]) :
        /\ Len(chist[i]) < MaxCalls
        /\ SignalClaimPendingAllocation(cuid[i], c)
        /\ chist' = [chist EXCEPT ![i] = Append(@, ret')]
        /\ UNCHANGED <<cuid, ledger0, attemptVars, readerVars, pluginVars>>

CallerRemove ==
    \E i \in Callers :
        /\ Len(chist[i]) < MaxCalls
        /\ RemoveClaimPendingAllocation(cuid[i])
        /\ chist' = [chist EXCEPT ![i] = Append(@, ret')]
        /\ UNCHANGED <<cuid, ledger0, attemptVars, readerVars, pluginVars>>

NextCallers ==
    \/ CallerSignal
    \/ CallerRemove

SpecCallers == InitCallers /\ [][NextCallers]_vars

\* the ledger entry of one UID after the calls of one caller, run alone from
\* the entry it started with
RECURSIVE RunAlone(_, _)
RunAlone(entry, calls) ==
    IF calls = <<>> THEN entry
    ELSE RunAlone(IF Head(calls).op = "SignalClaimPendingAllocation"
                  THEN Head(calls).claim ELSE Nil,
                  Tail(calls))

\* C11 (SpecCallers): callers working on distinct UIDs do not disturb each
\* other: in every interleaving the ledger entry of each caller's UID is what
\* that caller's own calls, run alone, leave there, and a UID no caller works
\* on keeps the entry it had.
C11_DisjointKeys ==
    (\A i, j \in Callers : i # j => cuid[i] # cuid[j])
        => /\ \A i \in Callers :
                inFlightAllocations[cuid[i]] = RunAlone(ledger0[cuid[i]], chist[i])
           /\ \A u \in UIDs :
                (\A i \in Callers : cuid[i] # u)
                    => inFlightAllocations[u] = ledger0[u]

\* two callers on distinct UIDs have each made all their calls, one ending
\* with a Signal and the other with a Remove after a Signal
C11_Witness ==
    /\ cuid[1] # cuid[2]
    /\ Len(chist[1]) = MaxCalls
    /\ Len(chist[2]) = MaxCalls
    /\ chist[1][MaxCalls].op = "SignalClaimPendingAllocation"
    /\ chist[2][MaxCalls].op = "RemoveClaimPendingAllocation"
    /\ chist[2][MaxCalls].found
    /\ inFlightAllocations[cuid[1]] = chist[1][MaxCalls].claim
    /\ inFlightAllocations[cuid[2]] = Nil

---------------------------------------------------------------------------
(* C12: the two point reads                                                *)

\* C12 (Spec): Get returns the assumed version of a claim if there is one and
\* the authoritative version otherwise; GetOriginal returns the authoritative
\* version whether or not there is an assumed one; for a key the cache does
\* not hold, both return a not-found error and no claim.
C12_PointReads ==
    /\ \A ns \in Namespaces, n \in ClaimNames :
        LET e == cache[MetaNamespaceKey(ns, n)] IN
        IF e = NoEntry
        THEN /\ Get(ns, n) = [claim |-> Nil, err |-> "NotFound"]
             /\ GetOriginal(ns, n) = [claim |-> Nil, err |-> "NotFound"]
        ELSE /\ Get(ns, n) = [claim |-> IF e.latestObj # e.apiObj
                                        THEN e.latestObj ELSE e.apiObj,
                              err |-> NoError]
             /\ GetOriginal(ns, n) = [claim |-> e.apiObj, err |-> NoError]
    /\ \A ns \in Namespaces :
        /\ Get(ns, "missing") = [claim |-> Nil, err |-> "NotFound"]
        /\ GetOriginal(ns, "missing") = [claim |-> Nil, err |-> "NotFound"]
    /\ ret.op = "Get"
        => \E ns \in Namespaces, n \in ClaimNames :
            ret.key = MetaNamespaceKey(ns, n) /\ ret.out = Get(ns, n)
    /\ ret.op = "GetOriginal"
        => \E ns \in Namespaces, n \in ClaimNames :
            ret.key = MetaNamespaceKey(ns, n) /\ ret.out = GetOriginal(ns, n)

\* GetOriginal has returned the authoritative version of a claim whose
\* assumed version is another one, which is what Get returns for it
C12_Witness ==
    /\ ret.op = "GetOriginal"
    /\ ret.out.err = NoError
    /\ \E ns \in Namespaces, n \in ClaimNames :
        /\ ret.key = MetaNamespaceKey(ns, n)
        /\ cache[ret.key].latestObj # cache[ret.key].apiObj
        /\ ret.out.claim = cache[ret.key].apiObj
        /\ Get(ns, n).claim = cache[ret.key].latestObj

---------------------------------------------------------------------------
(* SpecTyped: a cache that also holds objects of another type              *)
(* The cache is generic; the tracker asserts the type of what it reads.    *)

OtherKind == "Pod"

OtherObject(namespace, name, rv) ==
    [kind |-> OtherKind, namespace |-> namespace, name |-> name,
     resourceVersion |-> rv]

OtherObjects ==
    {OtherObject(ns, n, rv) : ns \in Namespaces, n \in ClaimNames,
                              rv \in 1..MaxResourceVersion}

\* every key is absent or holds one object, a claim or not, as the informer
\* delivered it
TypedCaches ==
    {c \in [Keys -> {NoEntry} \cup
                    {[latestObj |-> o, apiObj |-> o] : o \in Claims \cup OtherObjects}] :
        \A k \in Keys : c[k] = NoEntry \/ KeyOf(c[k].apiObj) = k}

InitTyped ==
    /\ cache \in TypedCaches
    /\ inFlightAllocations \in StartLedgers
    /\ ret = [op |-> "NewDraManager"]
    /\ apc = "idle"
    /\ aorig = Nil
    /\ aclaim = Nil
    /\ rpc = "idle"
    /\ rclaims = <<>>
    /\ ri = 0
    /\ rallocated = <<>>
    /\ rbegin = "idle"
    /\ CallersIdle
    /\ PluginIdle

NextTyped ==
    \/ DoGet
    \/ DoGetOriginal
    \/ DoList
    \/ DoListAllAllocated
    \/ Assume
    \/ Restore

SpecTyped == InitTyped /\ [][NextTyped]_vars

\* the keys whose latest object is a claim, and those objects
ClaimTypedKeys ==
    {k \in Keys : cache[k] # NoEntry /\ IsResourceClaim(cache[k].latestObj)}

TypeMismatch == [claim |-> Nil, err |-> "UnexpectedType"]

\* C13 as stated (SpecTyped): whenever a key holds an object that is not a
\* claim, both Get and GetOriginal for that key return the type-mismatch
\* error and no claim.
C13_AsStated ==
    \A ns \in Namespaces, n \in ClaimNames :
        LET e == cache[MetaNamespaceKey(ns, n)] IN
        (e # NoEntry /\ (~IsResourceClaim(e.latestObj) \/ ~IsResourceClaim(e.apiObj)))
            => /\ Get(ns, n) = TypeMismatch
               /\ GetOriginal(ns, n) = TypeMismatch

\* C13 (SpecTyped): Get returns the type-mismatch error and no claim when the
\* version it reads (the assumed one if there is one) is not a claim, and
\* GetOriginal when the authoritative version is not a claim; List and
\* ListAllAllocated return no error, List returns exactly the claim-typed
\* latest objects, once each, and ListAllAllocated covers every one of them.
C13_TypeMismatch ==
    /\ \A ns \in Namespaces, n \in ClaimNames :
        LET e == cache[MetaNamespaceKey(ns, n)] IN
        e # NoEntry
            => /\ ~IsResourceClaim(e.latestObj) => Get(ns, n) = TypeMismatch
               /\ ~IsResourceClaim(e.apiObj) => GetOriginal(ns, n) = TypeMismatch
    /\ List.err = NoError
    /\ Range(List.claims) = {cache[k].latestObj : k \in ClaimTypedKeys}
    /\ Len(List.claims) = Cardinality(ClaimTypedKeys)
    /\ ListAllAllocated.err = NoError
    /\ AllocatedClaims =
         {LedgerOrClaim(cache[k].latestObj) : k \in ClaimTypedKeys}
            \ {c \in Claims : c.allocation = NilAllocation}
    /\ ret.op \in {"Get", "GetOriginal"}
        => (ret.out.err = "UnexpectedType" => ret.out.claim = Nil)

\* Get has returned the type-mismatch error for a key holding another kind of
\* object while List returns the claim held under the other key
C13_Witness ==
    /\ ret.op = "Get"
    /\ ret.out = TypeMismatch
    /\ cache[ret.key].latestObj.kind = OtherKind
    /\ Len(List.claims) = 1
    /\ ListAllAllocated.claims # <<>>

---------------------------------------------------------------------------
(* C14, C16: repeated calls of one caller                                  *)

\* C14 (SpecScenario): a second SignalClaimPendingAllocation for a UID
\* overwrites the first: the ledger then holds the second claim for that UID
\* and leaves other UIDs alone, ListAllAllocated judges the cached claim of
\* that UID by the second claim, and one RemoveClaimPendingAllocation after
\* it returns true and leaves no entry for the UID.
C14_LastWriteWins ==
    [][/\ apc' = "signaledAgain"
            => /\ ret'.op = "SignalClaimPendingAllocation"
               /\ ret'.claim.uid = aclaim.uid
               /\ inFlightAllocations'[aclaim.uid] = ret'.claim
               /\ \A u \in UIDs \ {aclaim.uid} :
                    inFlightAllocations'[u] = inFlightAllocations[u]
               /\ \A x \in CachedClaims' :
                    x.uid = aclaim.uid => LedgerOrClaim(x)' = ret'.claim
               /\ (IsCached(aclaim.namespace, aclaim.name)'
                     /\ ret'.claim.allocation # NilAllocation)
                    => ret'.claim \in AllocatedClaims'
               /\ ret'.claim.allocation = NilAllocation
                    => \A x \in AllocatedClaims' : x.uid # aclaim.uid
       /\ (apc = "signaledAgain" /\ apc' = "removed")
            => /\ ret'.found
               /\ inFlightAllocations'[aclaim.uid] = Nil]_vars

\* the second Signal stored an allocated claim over an unallocated one, the
\* claim is cached, and ListAllAllocated reports the second claim
C14_Witness ==
    /\ apc = "signaledAgain"
    /\ aclaim.allocation = NilAllocation
    /\ ret.claim # aclaim
    /\ inFlightAllocations[aclaim.uid] = ret.claim
    /\ IsCached(aclaim.namespace, aclaim.name)
    /\ ret.claim \in AllocatedClaims

\* C16 (SpecScenario): AssumedClaimRestore for a key that is absent or has no
\* assumed version changes nothing: cache and ledger are as before, and so is
\* what Get, GetOriginal and List return; a second AssumedClaimRestore right
\* after a first changes nothing either.
C16_RestoreNoOp ==
    [][LET e == cache[KeyOf(aclaim)]
           SameReads ==
               /\ UNCHANGED trackerVars
               /\ List' = List
               /\ \A ns \in Namespaces, n \in ClaimNames :
                    /\ Get(ns, n)' = Get(ns, n)
                    /\ GetOriginal(ns, n)' = GetOriginal(ns, n)
       IN /\ (apc' = "restoredOnly" /\ (IF e = NoEntry THEN TRUE
                                         ELSE e.latestObj = e.apiObj))
                => SameReads
          /\ apc' = "restoredAgain" => SameReads]_vars

\* a second Restore has run, on a cached key the first Restore had left
\* without an assumed version
C16_Witness ==
    /\ apc = "restoredAgain"
    /\ ret.op = "AssumedClaimRestore"
    /\ ret.key = KeyOf(aclaim)
    /\ cache[KeyOf(aclaim)] # NoEntry
    /\ cache[KeyOf(aclaim)].latestObj = aorig
    /\ aorig # Nil

---------------------------------------------------------------------------
(* C15: concurrent removals of one UID                                     *)

\* the Remove calls made so far, by any caller, that returned found = true
FoundRemovals ==
    {p \in Callers \X (1..MaxCalls) :
        /\ p[2] <= Len(chist[p[1]])
        /\ chist[p[1]][p[2]].op = "RemoveClaimPendingAllocation"
        /\ chist[p[1]][p[2]].found}

\* C15 (SpecCallers): when all callers remove the same UID concurrently, the
\* UID was signaled once before they started and nobody signals it again,
\* exactly one of the Remove calls made returns found = true and every other
\* one returns false.
C15_RemoveAtomic ==
    \A u \in UIDs :
        (/\ \A i \in Callers : cuid[i] = u
         /\ ledger0[u] # Nil
         /\ \A i \in Callers : \A j \in 1..Len(chist[i]) :
                chist[i][j].op = "RemoveClaimPendingAllocation")
            => /\ Cardinality(FoundRemovals) <= 1
               /\ (\E i \in Callers : chist[i] # <<>>)
                    => Cardinality(FoundRemovals) = 1

\* both callers have removed the same signaled UID; the second caller's
\* Remove found the entry and the first caller's did not
C15_Witness ==
    /\ cuid[1] = cuid[2]
    /\ ledger0[cuid[1]] # Nil
    /\ Len(chist[1]) = 1
    /\ Len(chist[2]) = 1
    /\ chist[1][1].op = "RemoveClaimPendingAllocation"
    /\ chist[2][1].op = "RemoveClaimPendingAllocation"
    /\ ~chist[1][1].found
    /\ chist[2][1].found

---------------------------------------------------------------------------
(* C17: assumed and authoritative versions                                 *)

\* C17 (Spec): for every cached key the version Get returns is never older
\* than the version GetOriginal returns, change notifications included; and
\* whenever the authoritative version is at least as new as the version Get
\* returns, as it is once a change notification has delivered a version at
\* least as new as the assumed one, Get returns the authoritative version.
C17_NeverOlder ==
    \A ns \in Namespaces, n \in ClaimNames :
        Get(ns, n).err = NoError
            => /\ GetOriginal(ns, n).err = NoError
               /\ Get(ns, n).claim.resourceVersion
                    >= GetOriginal(ns, n).claim.resourceVersion
               /\ GetOriginal(ns, n).claim.resourceVersion
                    >= Get(ns, n).claim.resourceVersion
                    => Get(ns, n).claim = GetOriginal(ns, n).claim

\* a change notification has delivered the newest version of a claim, which
\* Get now returns, while another claim still has an assumed version newer
\* than its authoritative one
C17_Witness ==
    /\ ret.op = "InformerUpdate"
    /\ \E ns \in Namespaces, n \in ClaimNames :
        /\ ret.key = MetaNamespaceKey(ns, n)
        /\ Get(ns, n) = GetOriginal(ns, n)
        /\ Get(ns, n).err = NoError
        /\ Get(ns, n).claim.resourceVersion = MaxResourceVersion
    /\ \E ns \in Namespaces, n \in ClaimNames :
        /\ Get(ns, n).err = NoError
        /\ Get(ns, n).claim.resourceVersion
              > GetOriginal(ns, n).claim.resourceVersion

---------------------------------------------------------------------------
(* C18: the ledger and the cache are independent                           *)

\* C18 (Spec): SignalClaimPendingAllocation and RemoveClaimPendingAllocation
\* leave the cache as it is; AssumeClaimAfterApiCall, successful or not, and
\* AssumedClaimRestore leave every ledger entry as it is; Get, GetOriginal,
\* List, ListAllAllocated and ClaimHasPendingAllocation change neither.
C18_Frame ==
    [][/\ ret'.op \in {"SignalClaimPendingAllocation", "RemoveClaimPendingAllocation"}
            => UNCHANGED cache
       /\ ret'.op \in {"AssumeClaimAfterApiCall", "AssumedClaimRestore"}
            => UNCHANGED inFlightAllocations
       /\ ret'.op \in {"Get", "GetOriginal", "List", "ListAllAllocated",
                       "ClaimHasPendingAllocation"}
            => UNCHANGED trackerVars]_vars

\* AssumedClaimRestore has run for a cached claim whose UID has a pending
\* allocation, and the ledger entry is still there
C18_Witness ==
    /\ ret.op = "AssumedClaimRestore"
    /\ cache[ret.key] # NoEntry
    /\ ClaimHasPendingAllocation(cache[ret.key].latestObj.uid)

---------------------------------------------------------------------------
(* C19: ListAllAllocated ranges over the cached claims only                *)

\* C19 (Spec): every claim ListAllAllocated returns is a claim List returns
\* or the ledger's value under the UID of a claim List returns; it returns at
\* most one claim per cached claim; and a ledger entry whose UID is the UID
\* of no cached claim is not returned, allocated or not.
C19_CachedClaimsOnly ==
    /\ \A r \in AllocatedClaims :
        \/ r \in CachedClaims
        \/ \E c \in CachedClaims : r = inFlightAllocations[c.uid]
    /\ Len(ListAllAllocated.claims) <= Len(List.claims)
    /\ \A c \in CachedClaims :
        Cardinality({i \in 1..Len(ListAllAllocated.claims) :
                        ListAllAllocated.claims[i].uid = c.uid}) <= 1
    /\ \A u \in UIDs :
        (ClaimHasPendingAllocation(u) /\ \A c \in CachedClaims : c.uid # u)
            => \A i \in 1..Len(ListAllAllocated.claims) :
                 ListAllAllocated.claims[i].uid # u
    /\ ret.op = "ListAllAllocated" => ret.out = ListAllAllocated

\* ListAllAllocated has returned a cached claim while the ledger holds an
\* allocated claim under the UID of a claim that is not cached
C19_Witness ==
    /\ ret.op = "ListAllAllocated"
    /\ ret.out.claims # <<>>
    /\ \E u \in UIDs :
        /\ ClaimHasPendingAllocation(u)
        /\ inFlightAllocations[u].allocation # NilAllocation
        /\ \A c \in CachedClaims : c.uid # u

---------------------------------------------------------------------------
(* ClaimsAssumeCache (plugins/dynamicresources/claims.go), over pcache     *)

\* namespace + "/" + claimName
ClaimsAssumeCacheKey(namespace, claimName) == namespace \o "/" \o claimName

ClaimsAssumeCacheGet(namespace, claimName) ==
    LET r == CacheGetIn(pcache, ClaimsAssumeCacheKey(namespace, claimName)) IN
    IF r.err # NoError THEN [claim |-> Nil, err |-> r.err]
    ELSE IF ~IsResourceClaim(r.obj) THEN [claim |-> Nil, err |-> "UnexpectedType"]
    ELSE [claim |-> r.obj, err |-> NoError]

ClaimsAssumeCacheGetOriginal(namespace, claimName) ==
    LET r == CacheGetAPIObjIn(pcache, ClaimsAssumeCacheKey(namespace, claimName)) IN
    IF r.err # NoError THEN [claim |-> Nil, err |-> r.err]
    ELSE IF ~IsResourceClaim(r.obj) THEN [claim |-> Nil, err |-> "UnexpectedType"]
    ELSE [claim |-> r.obj, err |-> NoError]

ClaimsAssumeCacheList ==
    [claims |-> SelectSeq(CacheListIn(pcache), IsResourceClaim), err |-> NoError]

CallClaimsAssumeCacheGet(namespace, claimName) ==
    /\ pret' = [op |-> "Get", key |-> ClaimsAssumeCacheKey(namespace, claimName),
                out |-> ClaimsAssumeCacheGet(namespace, claimName)]
    /\ UNCHANGED pcache

CallClaimsAssumeCacheGetOriginal(namespace, claimName) ==
    /\ pret' = [op |-> "GetOriginal", key |-> ClaimsAssumeCacheKey(namespace, claimName),
                out |-> ClaimsAssumeCacheGetOriginal(namespace, claimName)]
    /\ UNCHANGED pcache

CallClaimsAssumeCacheList ==
    /\ pret' = [op |-> "List", out |-> ClaimsAssumeCacheList]
    /\ UNCHANGED pcache

ClaimsAssumeCacheAssume(claim) ==
    /\ pcache' = CacheAssumeIn(pcache, claim)
    /\ pret' = [op |-> "Assume", claim |-> claim,
                err |-> CacheAssumeErrIn(pcache, claim)]

\* faulty variant: the key is the claim's name without its namespace
ClaimsAssumeCacheRestore_NameOnlyKey(namespace, claimName) ==
    /\ pcache' = CacheRestoreIn(pcache, claimName)
    /\ pret' = [op |-> "Restore", key |-> claimName]

ClaimsAssumeCacheRestore(namespace, claimName) ==
    /\ pcache' = CacheRestoreIn(pcache, ClaimsAssumeCacheKey(namespace, claimName))
    /\ pret' = [op |-> "Restore", key |-> ClaimsAssumeCacheKey(namespace, claimName)]

---------------------------------------------------------------------------
(* SpecEquiv: the tracker and ClaimsAssumeCache, call for call             *)
(* Both start over the same cache contents and receive the same calls.     *)

InitEquiv ==
    /\ cache \in TypedCaches
    /\ pcache = cache
    /\ inFlightAllocations = [u \in UIDs |-> Nil]
    /\ ret = [op |-> "NewDraManager"]
    /\ pret = [op |-> "NewDraManager"]
    /\ apc = "idle"
    /\ aorig = Nil
    /\ aclaim = Nil
    /\ rpc = "idle"
    /\ rclaims = <<>>
    /\ ri = 0
    /\ rallocated = <<>>
    /\ rbegin = "idle"
    /\ CallersIdle

BothGet ==
    \E ns \in Namespaces, n \in ClaimNames :
        /\ CallGet(ns, n)
        /\ CallClaimsAssumeCacheGet(ns, n)
        /\ UNCHANGED <<attemptVars, readerVars, callerVars>>

BothGetOriginal ==
    \E ns \in Namespaces, n \in ClaimNames :
        /\ CallGetOriginal(ns, n)
        /\ CallClaimsAssumeCacheGetOriginal(ns, n)
        /\ UNCHANGED <<attemptVars, readerVars, callerVars>>

BothList ==
    /\ CallList
    /\ CallClaimsAssumeCacheList
    /\ UNCHANGED <<attemptVars, readerVars, callerVars>>

BothAssume ==
    \E c \in Claims :
        /\ AssumeClaimAfterApiCall(c)
        /\ ClaimsAssumeCacheAssume(c)
        /\ UNCHANGED <<attemptVars, readerVars, callerVars>>

BothRestore ==
    \E ns \in Namespaces, n \in ClaimNames :
        /\ AssumedClaimRestore(ns, n)
        /\ ClaimsAssumeCacheRestore(ns, n)
        /\ UNCHANGED <<attemptVars, readerVars, callerVars>>

NextEquiv ==
    \/ BothGet
    \/ BothGetOriginal
    \/ BothList
    \/ BothAssume
    \/ BothRestore

SpecEquiv == InitEquiv /\ [][NextEquiv]_vars

\* the name of the ClaimsAssumeCache method that stands for a tracker method
MethodOfClaimsAssumeCache(op) ==
    IF op = "AssumeClaimAfterApiCall" THEN "Assume"
    ELSE IF op = "AssumedClaimRestore" THEN "Restore"
    ELSE op

\* C20 (SpecEquiv): started over the same cache contents and given the same
\* calls, ClaimsAssumeCache and the tracker hold the same cache contents after
\* every call, the corresponding methods have returned the same result, and
\* both address the cache by the key "<namespace>/<name>".
C20_SameAsTracker ==
    /\ pcache = cache
    /\ pret = [ret EXCEPT !.op = MethodOfClaimsAssumeCache(ret.op)]
    /\ \A ns \in Namespaces, n \in ClaimNames :
        /\ ClaimsAssumeCacheKey(ns, n) = TrackerKey(ns, n)
        /\ ClaimsAssumeCacheKey(ns, n) = MetaNamespaceKey(ns, n)
        /\ ClaimsAssumeCacheGet(ns, n) = Get(ns, n)
        /\ ClaimsAssumeCacheGetOriginal(ns, n) = GetOriginal(ns, n)
    /\ ClaimsAssumeCacheList = List

\* both have restored a key after an Assume: they hold the same contents,
\* with an object that is not a claim under the other key
C20_Witness ==
    /\ ret.op = "AssumedClaimRestore"
    /\ pret.op = "Restore"
    /\ pret.key = ret.key
    /\ pcache = cache
    /\ cache[ret.key] # NoEntry
    /\ \E k \in Keys :
        /\ cache[k] # NoEntry
        /\ cache[k].latestObj.kind = OtherKind
    /\ \E k \in Keys :
        /\ cache[k] # NoEntry
        /\ cache[k].latestObj # cache[k].apiObj

====
